---------------------------- MODULE Spec2Model ----------------------------
(***************************************************************************)
(* Model of the Content Credentials viewer (a10citylabs/verify).           *)
(*                                                                         *)
(* JavaScript strings are TLA+ strings; a character is a string of length  *)
(* one (SubSeq(s, i, i)).  JavaScript values are tagged records, so that   *)
(* the dynamic checks of the code (truthiness, property lookup on          *)
(* something that is not an object, iteration over something that is not   *)
(* iterable) are computed and not assumed.  An operator that models code   *)
(* which can raise a TypeError returns a record with a "threw" field, or   *)
(* the value Throw.                                                        *)
(*                                                                         *)
(* The details panel (credentialDetails.innerHTML) is a sequence of        *)
(* blocks, one record per template block of the markup, in document order. *)
(*                                                                         *)
(* Spec calls each pure function once on an input of its domain.           *)
(* RepeatSpec calls createCredentialDetails again and again.  FileSpec is  *)
(* the page at work: the startup, the listeners and overlapping            *)
(* processFile calls, each a sequence of steps between its awaits;         *)
(* LiveFileSpec adds that every promise of the SDK settles.                *)
(***************************************************************************)
EXTENDS Integers, Sequences, FiniteSets, TLC

VARIABLES
    credentialDetails,  \* the blocks of credentialDetails.innerHTML
    call,               \* the call made: [fn |-> name, arg |-> argument]
    pc,                 \* "call" before the call runs, "done" after it
    ret,                \* what the call returned, or Throw
    c2pa,               \* the SDK: "null" until createC2pa resolves, then "sdk"
    hidden,             \* the .hidden flag of each of the five state panels
    errorMessage,       \* errorMessage.textContent
    previewImage,       \* the name of the file in the preview, "" for none
    currentJsonData,    \* the text the copy button copies
    jsonOutput,         \* the runs of the <code> of jsonOutput
    startup,            \* where initC2pa and loadDefaultImage stand
    tasks               \* the processFile calls made with the SDK present

\* what the page holds besides the details panel
pageVars == <<c2pa, hidden, errorMessage, previewImage, currentJsonData,
              jsonOutput, startup, tasks>>

vars == <<credentialDetails, call, pc, ret, c2pa, hidden, errorMessage,
          previewImage, currentJsonData, jsonOutput, startup, tasks>>

---------------------------------------------------------------------------
(* Characters and strings                                                  *)

LowerAlpha == "abcdefghijklmnopqrstuvwxyz"
UpperAlpha == "ABCDEFGHIJKLMNOPQRSTUVWXYZ"
Digits == "0123456789"

\* U+203A, the single right-pointing angle quotation mark of
\* formatValidationCode.  TLA+ strings are ASCII: this character stands
\* for it and occurs in no input of the model.
Raquo == "|"

CharAt(s, i) == SubSeq(s, i, i)

CharsOf(s) == {CharAt(s, i) : i \in 1..Len(s)}

IsLower(c) == c \in CharsOf(LowerAlpha)
IsUpper(c) == c \in CharsOf(UpperAlpha)
IsDigit(c) == c \in CharsOf(Digits)

\* \w of a JavaScript regular expression
IsWordChar(c) == IsLower(c) \/ IsUpper(c) \/ IsDigit(c) \/ c = "_"

\* \s of a JavaScript regular expression (the ASCII part)
IsSpaceChar(c) == c \in {" ", "\t", "\n", "\r", "\f"}

PosIn(alphabet, c) == CHOOSE i \in 1..Len(alphabet) : CharAt(alphabet, i) = c

ToUpperChar(c) == IF IsLower(c) THEN CharAt(UpperAlpha, PosIn(LowerAlpha, c)) ELSE c
ToLowerChar(c) == IF IsUpper(c) THEN CharAt(LowerAlpha, PosIn(UpperAlpha, c)) ELSE c

\* String.prototype.startsWith
StartsWith(s, p) == Len(s) >= Len(p) /\ SubSeq(s, 1, Len(p)) = p

\* String.prototype.indexOf, 1-based; 0 when p does not occur
IndexOf(s, p) ==
    LET hits == {i \in 1..(Len(s) - Len(p) + 1) : SubSeq(s, i, i + Len(p) - 1) = p}
    IN  IF hits = {} THEN 0 ELSE CHOOSE i \in hits : \A j \in hits : i <= j

\* String.prototype.includes
Includes(s, p) == IndexOf(s, p) # 0

\* s.replace(p, r) with a string pattern: the first occurrence only
ReplaceFirst(s, p, r) ==
    LET i == IndexOf(s, p)
    IN  IF i = 0 THEN s
        ELSE SubSeq(s, 1, i - 1) \o r \o SubSeq(s, i + Len(p), Len(s))

\* s.replace(/c/g, r) for a one-character pattern c
RECURSIVE ReplaceAllChar(_, _, _)
ReplaceAllChar(s, c, r) ==
    IF s = "" THEN ""
    ELSE (IF CharAt(s, 1) = c THEN r ELSE CharAt(s, 1))
             \o ReplaceAllChar(Tail(s), c, r)

\* String.prototype.toLowerCase (ASCII)
RECURSIVE ToLowerCase(_)
ToLowerCase(s) ==
    IF s = "" THEN "" ELSE ToLowerChar(CharAt(s, 1)) \o ToLowerCase(Tail(s))

\* Number.prototype.toString for a natural number
RECURSIVE NatToString(_)
NatToString(n) ==
    IF n < 10 THEN CharAt(Digits, n + 1)
    ELSE NatToString(n \div 10) \o CharAt(Digits, (n % 10) + 1)

\* Array.prototype.join('') of a sequence of strings
RECURSIVE Concat(_)
Concat(ss) == IF ss = <<>> THEN "" ELSE Head(ss) \o Concat(Tail(ss))

---------------------------------------------------------------------------
(* JavaScript values                                                       *)

Undef == [t |-> "undef"]
Null == [t |-> "null"]
Str(s) == [t |-> "str", s |-> s]
Num(n) == [t |-> "num", n |-> n]
Arr(a) == [t |-> "arr", a |-> a]
\* an ordinary object: o maps its own property names to values
Obj(o) == [t |-> "obj", o |-> o]
\* a built-in function object, such as the ones Object.prototype holds
Fn(name) == [t |-> "fn", name |-> name]
\* the outcome of an expression that raised a TypeError
Throw == [t |-> "throw"]

EmptyObj == Obj(<<>>)

IsNullish(v) == v.t \in {"undef", "null"}

\* ToBoolean
Truthy(v) ==
    CASE v.t = "undef" -> FALSE
      [] v.t = "null" -> FALSE
      [] v.t = "str" -> v.s # ""
      [] v.t = "num" -> v.n # 0
      [] OTHER -> TRUE

\* a || b
Or(a, b) == IF Truthy(a) THEN a ELSE b

\* The property names every ordinary object inherits from Object.prototype
\* (the ones the model's inputs use).
ObjectPrototypeKeys == {"constructor", "toString", "valueOf", "hasOwnProperty"}

\* v[k] for a v that is not null or undefined: an own property, else one
\* inherited from the prototype, else undefined.
GetProp(v, k) ==
    CASE v.t = "obj" ->
            IF k \in DOMAIN v.o THEN v.o[k]
            ELSE IF k \in ObjectPrototypeKeys
                 THEN Fn(IF k = "constructor" THEN "Object" ELSE k)
                 ELSE Undef
      [] v.t = "arr" ->
            IF k = "length" THEN Num(Len(v.a))
            ELSE IF k \in ObjectPrototypeKeys THEN Fn(k) ELSE Undef
      [] v.t = "str" ->
            IF k = "length" THEN Num(Len(v.s))
            ELSE IF k \in ObjectPrototypeKeys THEN Fn(k) ELSE Undef
      [] v.t = "fn" ->
            IF k = "name" THEN Str(v.name)
            ELSE IF k = "length" THEN Num(1)
            ELSE IF k \in ObjectPrototypeKeys THEN Fn(k) ELSE Undef
      [] OTHER ->
            IF k \in ObjectPrototypeKeys THEN Fn(k) ELSE Undef

\* v[0] for a truthy v
FirstElement(v) ==
    CASE v.t = "arr" -> IF Len(v.a) > 0 THEN v.a[1] ELSE Undef
      [] v.t = "str" -> IF Len(v.s) > 0 THEN Str(CharAt(v.s, 1)) ELSE Undef
      [] OTHER -> Undef

\* x > 0 for the value of a .length
IsPositive(v) == v.t = "num" /\ v.n > 0

\* whether for (const x of v) can iterate v
IsIterable(v) == v.t \in {"arr", "str"}

\* the values for (const x of v) yields
IterItems(v) ==
    IF v.t = "arr" THEN v.a ELSE [i \in 1..Len(v.s) |-> Str(CharAt(v.s, i))]

\* String(v)
RECURSIVE StringOf(_)
RECURSIVE JoinValues(_)
StringOf(v) ==
    CASE v.t = "undef" -> "undefined"
      [] v.t = "null" -> "null"
      [] v.t = "str" -> v.s
      [] v.t = "num" -> NatToString(v.n)
      [] v.t = "arr" -> JoinValues(v.a)
      [] v.t = "fn" -> "function " \o v.name \o "() { [native code] }"
      [] OTHER -> "[object Object]"

\* Array.prototype.join(','): null and undefined elements give ''
JoinValues(a) ==
    IF a = <<>> THEN ""
    ELSE (IF IsNullish(a[1]) THEN "" ELSE StringOf(a[1]))
             \o (IF Len(a) > 1 THEN "," \o JoinValues(Tail(a)) ELSE "")

---------------------------------------------------------------------------
(* Helpers of the page script                                              *)

\* formatDate: toLocaleDateString('en-US', ...) of the parsed date.  The
\* text depends on the locale data and the time zone of the browser; the
\* model keeps the date string inside a fixed frame.
formatDate(dateString) == "date(" \o dateString \o ")"

\* escapeHtml: the innerHTML of a div whose textContent is the text
RECURSIVE escapeHtml(_)
escapeHtml(text) ==
    IF text = "" THEN ""
    ELSE LET c == CharAt(text, 1)
         IN  (CASE c = "&" -> "&amp;"
                [] c = "<" -> "&lt;"
                [] c = ">" -> "&gt;"
                [] OTHER -> c) \o escapeHtml(Tail(text))

\* the object literal actionMap of formatAction
actionMap ==
    Obj(("c2pa.created" :> Str("Created"))
        @@ ("c2pa.opened" :> Str("Opened"))
        @@ ("c2pa.edited" :> Str("Edited"))
        @@ ("c2pa.converted" :> Str("Converted"))
        @@ ("c2pa.resized" :> Str("Resized"))
        @@ ("c2pa.cropped" :> Str("Cropped"))
        @@ ("c2pa.color_adjustments" :> Str("Color Adjusted"))
        @@ ("c2pa.filtered" :> Str("Filtered"))
        @@ ("c2pa.drawing" :> Str("Drawing"))
        @@ ("c2pa.placed" :> Str("Placed"))
        @@ ("c2pa.removed" :> Str("Removed"))
        @@ ("c2pa.repackaged" :> Str("Repackaged"))
        @@ ("c2pa.transcoded" :> Str("Transcoded"))
        @@ ("c2pa.unknown" :> Str("Unknown Action")))

\* formatAction(action), action a string: a JavaScript value
formatAction(action) ==
    Or(GetProp(actionMap, action),
       Str(ReplaceAllChar(ReplaceFirst(action, "c2pa.", ""), "_", " ")))

\* the loop of extractAuthor without the test of the label
RECURSIVE extractAuthorAnyLabel(_, _)
extractAuthorAnyLabel(items, i) ==
    IF i > Len(items) THEN Null
    ELSE LET a == items[i]
         IN  IF IsNullish(a) THEN Throw
             ELSE IF Truthy(GetProp(a, "data"))
                  THEN LET author == GetProp(GetProp(a, "data"), "author")
                       IN  IF Truthy(author) /\ IsPositive(GetProp(author, "length"))
                           THEN LET firstAuthor == FirstElement(author)
                                IN  IF IsNullish(firstAuthor) THEN Throw
                                    ELSE IF Truthy(GetProp(firstAuthor, "name"))
                                         THEN Str(StringOf(GetProp(firstAuthor, "name")))
                                         ELSE extractAuthorAnyLabel(items, i + 1)
                           ELSE extractAuthorAnyLabel(items, i + 1)
                  ELSE extractAuthorAnyLabel(items, i + 1)

\* the loop of extractAuthor from the i-th item on: a string, Null or Throw
RECURSIVE extractAuthorFrom(_, _)
extractAuthorFrom(items, i) ==
    IF i > Len(items) THEN Null
    ELSE LET a == items[i]
         IN  IF IsNullish(a) THEN Throw
             ELSE IF GetProp(a, "label") = Str("stds.schema-org.CreativeWork")
                     /\ Truthy(GetProp(a, "data"))
                  THEN LET data == GetProp(a, "data")
                           author == GetProp(data, "author")
                       IN  IF Truthy(author) /\ IsPositive(GetProp(author, "length"))
                           THEN LET firstAuthor == FirstElement(author)
                                IN  IF IsNullish(firstAuthor) THEN Throw
                                    ELSE IF Truthy(GetProp(firstAuthor, "name"))
                                         THEN Str(StringOf(GetProp(firstAuthor, "name")))
                                         ELSE extractAuthorFrom(items, i + 1)
                           ELSE extractAuthorFrom(items, i + 1)
                  ELSE extractAuthorFrom(items, i + 1)

\* extractAuthor(assertions), assertions truthy
extractAuthor(assertions) ==
    IF IsIterable(assertions) THEN extractAuthorFrom(IterItems(assertions), 1)
    ELSE Throw

\* the inner loop of extractActions over one action list, from the j-th
\* entry on: the strings pushed, or a TypeError
RECURSIVE pushActionsFrom(_, _)
pushActionsFrom(entries, j) ==
    IF j > Len(entries) THEN [threw |-> FALSE, actions |-> <<>>]
    ELSE LET action == entries[j]
         IN  IF IsNullish(action) THEN [threw |-> TRUE, actions |-> <<>>]
             ELSE LET rest == pushActionsFrom(entries, j + 1)
                      here == IF Truthy(GetProp(action, "action"))
                              THEN <<StringOf(GetProp(action, "action"))>>
                              ELSE <<>>
                  IN  [threw |-> rest.threw, actions |-> here \o rest.actions]

\* the outer loop of extractActions, left at the first assertion
\* labelled c2pa.actions that has an action list
RECURSIVE extractActionsFirstOnly(_, _)
extractActionsFirstOnly(items, i) ==
    IF i > Len(items) THEN [threw |-> FALSE, actions |-> <<>>]
    ELSE LET a == items[i]
         IN  IF IsNullish(a) THEN [threw |-> TRUE, actions |-> <<>>]
             ELSE LET actionList ==
                          IF GetProp(a, "label") = Str("c2pa.actions")
                             /\ Truthy(GetProp(a, "data"))
                          THEN GetProp(GetProp(a, "data"), "actions")
                          ELSE Undef
                  IN  IF ~Truthy(actionList) THEN extractActionsFirstOnly(items, i + 1)
                      ELSE IF IsIterable(actionList)
                           THEN pushActionsFrom(IterItems(actionList), 1)
                           ELSE [threw |-> TRUE, actions |-> <<>>]

\* the outer loop of extractActions from the i-th item on
RECURSIVE extractActionsFrom(_, _)
extractActionsFrom(items, i) ==
    IF i > Len(items) THEN [threw |-> FALSE, actions |-> <<>>]
    ELSE LET a == items[i]
         IN  IF IsNullish(a) THEN [threw |-> TRUE, actions |-> <<>>]
             ELSE LET actionList ==
                          IF GetProp(a, "label") = Str("c2pa.actions")
                             /\ Truthy(GetProp(a, "data"))
                          THEN GetProp(GetProp(a, "data"), "actions")
                          ELSE Undef
                      here == IF ~Truthy(actionList)
                              THEN [threw |-> FALSE, actions |-> <<>>]
                              ELSE IF IsIterable(actionList)
                                   THEN pushActionsFrom(IterItems(actionList), 1)
                                   ELSE [threw |-> TRUE, actions |-> <<>>]
                  IN  IF here.threw THEN here
                      ELSE LET rest == extractActionsFrom(items, i + 1)
                           IN  [threw |-> rest.threw,
                                actions |-> here.actions \o rest.actions]

\* extractActions(assertions), assertions truthy
extractActions(assertions) ==
    IF IsIterable(assertions) THEN extractActionsFrom(IterItems(assertions), 1)
    ELSE [threw |-> TRUE, actions |-> <<>>]

---------------------------------------------------------------------------
(* createCredentialDetails                                                 *)

\* .replace(/([a-z])([A-Z])/g, '$1 $2')
RECURSIVE SplitCamel(_)
SplitCamel(s) ==
    IF Len(s) < 2 THEN s
    ELSE IF IsLower(CharAt(s, 1)) /\ IsUpper(CharAt(s, 2))
         THEN CharAt(s, 1) \o " " \o SplitCamel(Tail(s))
         ELSE CharAt(s, 1) \o SplitCamel(Tail(s))

\* .replace(/^\w/, c => c.toUpperCase())
CapitalizeFirst(s) ==
    IF s # "" /\ IsWordChar(CharAt(s, 1))
    THEN ToUpperChar(CharAt(s, 1)) \o Tail(s)
    ELSE s

\* formatValidationCode without the split at a lowercase-uppercase boundary
formatValidationCodeNoSplit(code) ==
    CapitalizeFirst(
        ToLowerCase(
            ReplaceAllChar(
                ReplaceAllChar(code, ".", " " \o Raquo \o " "),
                "_", " ")))

formatValidationCode(code) ==
    CapitalizeFirst(
        ToLowerCase(
            SplitCamel(
                ReplaceAllChar(
                    ReplaceAllChar(code, ".", " " \o Raquo \o " "),
                    "_", " "))))

\* const activeManifestKey = store.active_manifest || store.activeManifest
activeManifestKeyOf(store) ==
    Or(GetProp(store, "active_manifest"), GetProp(store, "activeManifest"))

\* const activeManifest = activeManifestKey && manifests
\*                            ? manifests[activeManifestKey] : undefined
activeManifestOf(store) ==
    LET activeManifestKey == activeManifestKeyOf(store)
        manifests == GetProp(store, "manifests")
    IN  IF Truthy(activeManifestKey) /\ Truthy(manifests)
        THEN GetProp(manifests, StringOf(activeManifestKey))
        ELSE Undef

\* validationStatusOf reading the snake_case spelling only
validationStatusSnakeOnly(store) == GetProp(store, "validation_status")

\* const validationStatus = store.validation_status || store.validationStatus
validationStatusOf(store) ==
    Or(GetProp(store, "validation_status"), GetProp(store, "validationStatus"))

\* the callback of validationStatus.filter, on an entry that is an object
isValidationIssue(s) ==
    Truthy(GetProp(s, "code")) /\ ~StartsWith(StringOf(GetProp(s, "code")), "claim")

\* const validationIssues = validationStatus?.filter(...) || []
\* ?. guards null and undefined only: any other value without a filter
\* method, and any null entry, raises a TypeError.
validationIssuesOf(store) ==
    LET validationStatus == validationStatusOf(store)
    IN  IF IsNullish(validationStatus) THEN [threw |-> FALSE, issues |-> <<>>]
        ELSE IF validationStatus.t # "arr" THEN [threw |-> TRUE, issues |-> <<>>]
        ELSE IF \E i \in 1..Len(validationStatus.a) : IsNullish(validationStatus.a[i])
             THEN [threw |-> TRUE, issues |-> <<>>]
             ELSE [threw |-> FALSE,
                   issues |-> SelectSeq(validationStatus.a, isValidationIssue)]

\* one <div class="validation-issue">
validationIssueHtml(issue) ==
    LET code == IF Truthy(GetProp(issue, "code"))
                THEN StringOf(GetProp(issue, "code")) ELSE "Unknown issue"
        explanation == IF Truthy(GetProp(issue, "explanation"))
                       THEN StringOf(GetProp(issue, "explanation")) ELSE ""
    IN  [code |-> escapeHtml(formatValidationCode(code)),
         explanation |-> escapeHtml(explanation)]

\* validationHtml: the badge and, under it, the issues
validationHtml(validationIssues) ==
    LET hasErrors == Len(validationIssues) > 0
    IN  [section |-> "validation",
         class |-> IF hasErrors THEN "has-errors" ELSE "valid",
         badge |-> IF hasErrors
                   THEN NatToString(Len(validationIssues)) \o " Issue"
                            \o (IF Len(validationIssues) # 1 THEN "s" ELSE "")
                   ELSE "Content Credentials Verified",
         issues |-> [i \in 1..Len(validationIssues) |->
                        validationIssueHtml(validationIssues[i])]]

\* const signatureInfo = activeManifest.signature_info || activeManifest.signatureInfo
signatureInfoOf(activeManifest) ==
    Or(GetProp(activeManifest, "signature_info"), GetProp(activeManifest, "signatureInfo"))

\* const certSerial = ... (computed, shown nowhere)
certSerialOf(signatureInfo) ==
    LET v == Or(GetProp(signatureInfo, "cert_serial_number"),
                GetProp(signatureInfo, "certSerialNumber"))
    IN  IF Truthy(v) THEN Str(StringOf(v)) ELSE Null

\* signerHtml: no block without signature info
signerHtml(activeManifest) ==
    LET signatureInfo == signatureInfoOf(activeManifest)
    IN  IF ~Truthy(signatureInfo) THEN <<>>
        ELSE LET issuer == IF Truthy(GetProp(signatureInfo, "issuer"))
                           THEN StringOf(GetProp(signatureInfo, "issuer"))
                           ELSE "Unknown Issuer"
                 signedAt == IF Truthy(GetProp(signatureInfo, "time"))
                             THEN formatDate(StringOf(GetProp(signatureInfo, "time")))
                             ELSE ""
             IN  <<[section |-> "signer",
                    issuer |-> escapeHtml(issuer),
                    signedAt |-> escapeHtml(signedAt)]>>

\* x ? String(x) : null, with '' for null: both are falsy where it is used
StringOrEmpty(v) == IF Truthy(v) THEN StringOf(v) ELSE ""

\* contentHtml, given the author (a string value or Null)
contentHtml(activeManifest, author) ==
    LET title == StringOrEmpty(GetProp(activeManifest, "title"))
        format == StringOrEmpty(GetProp(activeManifest, "format"))
        name == IF Truthy(author) THEN author.s ELSE ""
    IN  IF title # "" \/ format # "" \/ name # ""
        THEN <<[section |-> "content",
                author |-> escapeHtml(name),
                title |-> escapeHtml(title),
                format |-> escapeHtml(format)]>>
        ELSE <<>>

\* const claimGenerator = (a.claim_generator || a.claimGenerator) ? String(...) : null
claimGeneratorOf(activeManifest) ==
    StringOrEmpty(Or(GetProp(activeManifest, "claim_generator"),
                     GetProp(activeManifest, "claimGenerator")))

\* claimGenerator.split(' ')[0]
FirstPart(s) ==
    LET i == IndexOf(s, " ") IN IF i = 0 THEN s ELSE SubSeq(s, 1, i - 1)

\* appName = parts[0].replace(/_/g, ' ').replace(/\//g, ' ')
appNameOf(claimGenerator) ==
    ReplaceAllChar(ReplaceAllChar(FirstPart(claimGenerator), "_", " "), "/", " ")

\* the <span class="action-tag"> of one action
actionTag(action) == escapeHtml(StringOf(formatAction(action)))

\* processHtml, given the claim generator ('' for null) and the actions
processHtml(claimGenerator, actions) ==
    IF claimGenerator # "" \/ Len(actions) > 0
    THEN <<[section |-> "process",
            appName |-> IF claimGenerator # ""
                        THEN escapeHtml(appNameOf(claimGenerator)) ELSE "",
            actions |-> [i \in 1..Len(actions) |-> actionTag(actions[i])]]>>
    ELSE <<>>

\* one <div class="ingredient-item">, index from 0
ingredientHtml(ing, index) ==
    [name |-> escapeHtml(IF Truthy(GetProp(ing, "title"))
                         THEN StringOf(GetProp(ing, "title"))
                         ELSE "Ingredient " \o NatToString(index + 1)),
     format |-> escapeHtml(StringOrEmpty(GetProp(ing, "format")))]

\* ingredientsHtml: ingredients.map on something that is no array, or on
\* an array with a null entry, raises a TypeError
ingredientsHtml(activeManifest) ==
    LET ingredients == GetProp(activeManifest, "ingredients")
    IN  IF ~(Truthy(ingredients) /\ IsPositive(GetProp(ingredients, "length")))
        THEN [threw |-> FALSE, html |-> <<>>]
        ELSE IF ingredients.t # "arr"
                \/ \E i \in 1..Len(ingredients.a) : IsNullish(ingredients.a[i])
             THEN [threw |-> TRUE, html |-> <<>>]
             ELSE [threw |-> FALSE,
                   html |-> <<[section |-> "ingredients",
                               count |-> Len(ingredients.a),
                               items |-> [i \in 1..Len(ingredients.a) |->
                                             ingredientHtml(ingredients.a[i], i - 1)]]>>]

\* Object.keys(manifests).length
OwnKeyCount(v) ==
    CASE v.t = "obj" -> Cardinality(DOMAIN v.o)
      [] v.t = "arr" -> Len(v.a)
      [] v.t = "str" -> Len(v.s)
      [] OTHER -> 0

\* x?.length || 0
LengthOrZero(v) == IF IsNullish(v) THEN Num(0) ELSE Or(GetProp(v, "length"), Num(0))

\* 's' unless the count is the number 1
Plural(word, count) == word \o (IF count # Num(1) THEN "s" ELSE "")

\* statsHtml
statsHtml(store, activeManifest) ==
    LET manifests == GetProp(store, "manifests")
        manifestCount == Num(IF Truthy(manifests) THEN OwnKeyCount(manifests) ELSE 0)
        assertionCount == LengthOrZero(GetProp(activeManifest, "assertions"))
        ingredientCount == LengthOrZero(GetProp(activeManifest, "ingredients"))
    IN  [section |-> "stats",
         manifests |-> StringOf(manifestCount) \o " " \o Plural("Manifest", manifestCount),
         assertions |-> StringOf(assertionCount) \o " " \o Plural("Assertion", assertionCount),
         ingredients |-> StringOf(ingredientCount) \o " "
                             \o Plural("Ingredient", ingredientCount)]

\* <p class="no-details">No manifest details available.</p>
NoDetailsMarker == [section |-> "no-details", text |-> "No manifest details available."]

\* createCredentialDetails(manifestStore): whether it raised, and what it
\* left in credentialDetails.innerHTML (set to '' first, and to the whole
\* markup in the last statement only)
createCredentialDetails(store) ==
    LET activeManifest == activeManifestOf(store)
    IN  IF ~Truthy(activeManifest)
        THEN [threw |-> FALSE, html |-> <<NoDetailsMarker>>]
        ELSE LET validation == validationIssuesOf(store)
                 assertions == GetProp(activeManifest, "assertions")
                 author == IF Truthy(assertions) THEN extractAuthor(assertions) ELSE Null
                 actions == IF Truthy(assertions) THEN extractActions(assertions)
                            ELSE [threw |-> FALSE, actions |-> <<>>]
                 ingredients == ingredientsHtml(activeManifest)
             IN  IF validation.threw \/ author = Throw \/ actions.threw
                    \/ ingredients.threw
                 THEN [threw |-> TRUE, html |-> <<>>]
                 ELSE [threw |-> FALSE,
                       html |-> signerHtml(activeManifest)
                                    \o contentHtml(activeManifest, author)
                                    \o processHtml(claimGeneratorOf(activeManifest),
                                                   actions.actions)
                                    \o ingredients.html
                                    \o <<statsHtml(store, activeManifest),
                                         validationHtml(validation.issues)>>]

\* a first statement that leaves the panel as it was
clearedPanelKept(before) == before

\* credentialDetails.innerHTML = '': the first statement of the function
clearedPanel(before) == <<>>

\* the panel after createCredentialDetails(store) ran on a panel: what
\* the function assigned last, which is the cleared panel when it raised
detailsPanelAfter(before, store) ==
    IF createCredentialDetails(store).threw THEN clearedPanel(before)
    ELSE createCredentialDetails(store).html

---------------------------------------------------------------------------
(* syntaxHighlight                                                         *)

BSlash == "\\"
DQuote == "\""

\* [a-zA-Z0-9]
IsAlnum(c) == IsLower(c) \/ IsUpper(c) \/ IsDigit(c)

\* whether the k-th character of s exists and is a word character
WordAt(s, k) == k >= 1 /\ k <= Len(s) /\ IsWordChar(CharAt(s, k))

\* a scan of the string body that stops at the first quote, escaped or not
RECURSIVE StringBodyEndNoEscape(_, _)
StringBodyEndNoEscape(s, p) ==
    IF p > Len(s) \/ CharAt(s, p) = DQuote THEN p
    ELSE StringBodyEndNoEscape(s, p + 1)

\* ("(\\u[a-zA-Z0-9]{4}|\\[^u]|[^\\"])*": from position p inside a
\* string, the position at which the repetition stops
RECURSIVE StringBodyEnd(_, _)
StringBodyEnd(s, p) ==
    IF p > Len(s) THEN p
    ELSE IF CharAt(s, p) = BSlash
         THEN IF p + 1 > Len(s) THEN p
              ELSE IF CharAt(s, p + 1) = "u"
                   THEN IF p + 5 <= Len(s)
                           /\ \A k \in 2..5 : IsAlnum(CharAt(s, p + k))
                        THEN StringBodyEnd(s, p + 6)
                        ELSE p
                   ELSE StringBodyEnd(s, p + 2)
         ELSE IF CharAt(s, p) = DQuote THEN p
         ELSE StringBodyEnd(s, p + 1)

\* the first position from p on that holds no whitespace
RECURSIVE SkipWhitespace(_, _)
SkipWhitespace(s, p) ==
    IF p <= Len(s) /\ IsSpaceChar(CharAt(s, p)) THEN SkipWhitespace(s, p + 1) ELSE p

\* "..."(\s*:)? at position i: the last position of the match, 0 for none
MatchString(s, i) ==
    IF CharAt(s, i) # DQuote THEN 0
    ELSE LET e == StringBodyEnd(s, i + 1)
         IN  IF e > Len(s) \/ CharAt(s, e) # DQuote THEN 0
             ELSE LET q == SkipWhitespace(s, e + 1)
                  IN  IF q <= Len(s) /\ CharAt(s, q) = ":" THEN q ELSE e

\* \b(true|false|null)\b at position i
MatchLiteral(s, i) ==
    LET hit(w) == /\ i + Len(w) - 1 <= Len(s)
                  /\ SubSeq(s, i, i + Len(w) - 1) = w
                  /\ ~WordAt(s, i - 1)
                  /\ ~WordAt(s, i + Len(w))
    IN  IF hit("true") THEN i + 3
        ELSE IF hit("false") THEN i + 4
        ELSE IF hit("null") THEN i + 3
        ELSE 0

\* the first position from p on that holds no digit
RECURSIVE SkipDigits(_, _)
SkipDigits(s, p) ==
    IF p <= Len(s) /\ IsDigit(CharAt(s, p)) THEN SkipDigits(s, p + 1) ELSE p

\* -?\d+(?:\.\d*)?(?:[eE][+\-]?\d+)? at position i
MatchNumber(s, i) ==
    LET start == IF CharAt(s, i) = "-" THEN i + 1 ELSE i
        int == SkipDigits(s, start)
        frac == IF int <= Len(s) /\ CharAt(s, int) = "." THEN SkipDigits(s, int + 1)
                ELSE int
        sign == IF frac + 1 <= Len(s) /\ CharAt(s, frac + 1) \in {"+", "-"}
                THEN frac + 2 ELSE frac + 1
        exp == IF frac <= Len(s) /\ CharAt(s, frac) \in {"e", "E"}
                  /\ SkipDigits(s, sign) > sign
               THEN SkipDigits(s, sign)
               ELSE frac
    IN  IF int = start THEN 0 ELSE exp - 1

\* the alternatives of the pattern in their order
MatchAt(s, i) ==
    IF MatchString(s, i) # 0 THEN MatchString(s, i)
    ELSE IF MatchLiteral(s, i) # 0 THEN MatchLiteral(s, i)
    ELSE MatchNumber(s, i)

\* the class the callback gives a match
ClassOf(match) ==
    IF CharAt(match, 1) = DQuote
    THEN IF CharAt(match, Len(match)) = ":" THEN "json-key" ELSE "json-string"
    ELSE IF Includes(match, "true") \/ Includes(match, "false") THEN "json-boolean"
    ELSE IF Includes(match, "null") THEN "json-null"
    ELSE "json-number"

\* json.replace(pattern, callback) from position i on.  The markup is a
\* sequence of runs: a match inside its span, [cls |-> class, text |->
\* match], or one character outside any span, [cls |-> "", text |-> c].
RECURSIVE highlightFrom(_, _)
highlightFrom(json, i) ==
    IF i > Len(json) THEN <<>>
    ELSE LET end == MatchAt(json, i)
         IN  IF end = 0
             THEN <<[cls |-> "", text |-> CharAt(json, i)]>> \o highlightFrom(json, i + 1)
             ELSE <<[cls |-> ClassOf(SubSeq(json, i, end)), text |-> SubSeq(json, i, end)]>>
                      \o highlightFrom(json, end + 1)

syntaxHighlight(json) == highlightFrom(json, 1)

\* JSON values: strings, numbers, booleans, null, arrays (Arr) and
\* objects with their properties in insertion order
Bool(b) == [t |-> "bool", b |-> b]
\* a number that is no natural number, by its decimal text
NumLit(text) == [t |-> "numlit", text |-> text]
Rec(pairs) == [t |-> "rec", p |-> pairs]

\* stands for U+001B in a string value (TLA+ strings cannot hold it)
EscChar == "^"

\* the characters JSON.stringify writes for one character of a string
QuoteChar(c) ==
    CASE c = DQuote -> BSlash \o DQuote
      [] c = BSlash -> BSlash \o BSlash
      [] c = "\n" -> BSlash \o "n"
      [] c = "\t" -> BSlash \o "t"
      [] c = EscChar -> BSlash \o "u001b"
      [] OTHER -> c

\* the JSON string literal of a string
RECURSIVE QuoteBody(_)
QuoteBody(s) == IF s = "" THEN "" ELSE QuoteChar(CharAt(s, 1)) \o QuoteBody(Tail(s))

Quote(s) == DQuote \o QuoteBody(s) \o DQuote

RECURSIVE Spaces(_)
Spaces(n) == IF n = 0 THEN "" ELSE " " \o Spaces(n - 1)

\* the line break and indentation before an item at a nesting level
Break(indent, level) == IF indent = 0 THEN "" ELSE "\n" \o Spaces(indent * level)

Piece(kind, text) == [kind |-> kind, text |-> text]

\* JSON.stringify(v, null, indent) at a nesting level, as the sequence
\* of its lexical pieces: tokens of a kind, and punctuation with the
\* whitespace around it
RECURSIVE Stringify(_, _, _)
RECURSIVE StringifyItems(_, _, _, _)
Stringify(v, indent, level) ==
    CASE v.t = "str" -> <<Piece("string", Quote(v.s))>>
      [] v.t = "num" -> <<Piece("number", NatToString(v.n))>>
      [] v.t = "numlit" -> <<Piece("number", v.text)>>
      [] v.t = "bool" -> <<Piece("boolean", IF v.b THEN "true" ELSE "false")>>
      [] v.t = "null" -> <<Piece("null", "null")>>
      [] v.t = "arr" ->
            IF v.a = <<>> THEN <<Piece("punct", "[]")>>
            ELSE <<Piece("punct", "[" \o Break(indent, level + 1))>>
                     \o StringifyItems([i \in 1..Len(v.a) |-> <<"", v.a[i]>>],
                                       1, indent, level + 1)
                     \o <<Piece("punct", Break(indent, level) \o "]")>>
      [] v.t = "rec" ->
            IF v.p = <<>> THEN <<Piece("punct", "{}")>>
            ELSE <<Piece("punct", "{" \o Break(indent, level + 1))>>
                     \o StringifyItems(v.p, 1, indent, level + 1)
                     \o <<Piece("punct", Break(indent, level) \o "}")>>

\* the items of an array (key '') or the properties of an object, from
\* the k-th on, with the commas between them
StringifyItems(pairs, k, indent, level) ==
    IF k > Len(pairs) THEN <<>>
    ELSE (IF pairs[k][1] = "" THEN <<>>
          ELSE <<Piece("key", Quote(pairs[k][1]) \o ":")>>
                   \o (IF indent = 0 THEN <<>> ELSE <<Piece("punct", " ")>>))
             \o Stringify(pairs[k][2], indent, level)
             \o (IF k < Len(pairs) THEN <<Piece("punct", "," \o Break(indent, level))>>
                 ELSE <<>>)
             \o StringifyItems(pairs, k + 1, indent, level)

\* the text of a sequence of pieces
RECURSIVE TextOf(_)
TextOf(pieces) == IF pieces = <<>> THEN "" ELSE pieces[1].text \o TextOf(Tail(pieces))

---------------------------------------------------------------------------
(* The stores the model passes to createCredentialDetails                  *)

\* longest validation status list of the model
MaxStatus == 2

\* marks a property that an object of the model does not have
Absent == [t |-> "absent"]

\* the object with the given <<name, value>> properties, the Absent ones left out
Props(pairs) ==
    LET present == {i \in 1..Len(pairs) : pairs[i][2] # Absent}
    IN  Obj([k \in {pairs[i][1] : i \in present} |->
                pairs[CHOOSE i \in present : pairs[i][1] = k][2]])

\* the spelling of a field name under a naming convention
Spelled(conv, snake, camel) == IF conv = "snake" THEN snake ELSE camel

Conventions == {"snake", "camel"}

MakeSignatureInfo(conv, issuer, time, serial) ==
    Props(<< <<"issuer", issuer>>, <<"time", time>>,
             <<Spelled(conv, "cert_serial_number", "certSerialNumber"), serial>> >>)

MakeManifest(conv, title, format, generator, signature, assertions, ingredients) ==
    Props(<< <<"title", title>>, <<"format", format>>,
             <<Spelled(conv, "claim_generator", "claimGenerator"), generator>>,
             <<Spelled(conv, "signature_info", "signatureInfo"), signature>>,
             <<"assertions", assertions>>, <<"ingredients", ingredients>> >>)

MakeStore(conv, key, manifests, status) ==
    Props(<< <<Spelled(conv, "active_manifest", "activeManifest"), key>>,
             <<"manifests", manifests>>,
             <<Spelled(conv, "validation_status", "validationStatus"), status>> >>)

\* validation entries: two claim.* codes apart, an issue with an
\* explanation, an issue in snake_case, an entry with an empty code and one
\* with no code
ValidationEntries ==
    { Props(<< <<"code", Str("claim.signingCredential.trusted")>> >>),
      Props(<< <<"code", Str("signingCredential.untrusted")>>,
               <<"explanation", Str("x")>> >>),
      Props(<< <<"code", Str("assertion.dataHash.mismatch_found")>> >>),
      Props(<< <<"code", Str("")>>, <<"explanation", Str("empty")>> >>),
      Props(<< <<"explanation", Str("no code")>> >>) }

RECURSIVE SeqsUpTo(_, _)
SeqsUpTo(S, n) ==
    IF n = 0 THEN {<<>>}
    ELSE LET shorter == SeqsUpTo(S, n - 1)
         IN  shorter \cup {Append(q, x) : q \in shorter, x \in S}

\* what a store may hold as its validation status: nothing, null, a list
\* of entries, or a value of another shape
StatusOptions ==
    {Absent, Null} \cup {Arr(q) : q \in SeqsUpTo(ValidationEntries, MaxStatus)}
        \cup {Str(""), Num(5), Arr(<<Null>>)}

CreativeWork(authors) ==
    Props(<< <<"label", Str("stds.schema-org.CreativeWork")>>,
             <<"data", Props(<< <<"author", authors>> >>)>> >>)

Actions(list) ==
    Props(<< <<"label", Str("c2pa.actions")>>,
             <<"data", Props(<< <<"actions", list>> >>)>> >>)

Named(name) == Props(<< <<"name", name>> >>)
Action(code) == Props(<< <<"action", code>> >>)

\* what a manifest of a store may hold as its assertions
AssertionOptions ==
    { Absent,
      Arr(<<>>),
      Arr(<<CreativeWork(Arr(<<>>)), CreativeWork(Arr(<<Named(Str("Jane Doe"))>>))>>),
      Arr(<<Actions(Arr(<<Action(Str("c2pa.created"))>>)),
            Actions(Arr(<<Action(Str("c2pa.resized")),
                          Action(Str("c2pa.unknown_code"))>>))>>),
      Arr(<<CreativeWork(Arr(<<Named(Str("A&B"))>>)),
            Actions(Arr(<<Action(Str("c2pa.color_adjustments")),
                          Action(Str("my.c2pa.custom_step"))>>))>>),
      Arr(<<CreativeWork(Arr(<<Null>>))>>),
      Arr(<<CreativeWork(Str("Jane"))>>),
      Arr(<<Actions(Num(5))>>),
      Arr(<<Actions(Arr(<<Null>>))>>),
      Arr(<<Null>>),
      EmptyObj }

SignatureOptions(conv) ==
    { Absent, Null,
      MakeSignatureInfo(conv, Str("Acme CA"), Str("2024-01-02T03:04:05Z"), Str("1234")),
      MakeSignatureInfo(conv, Absent, Absent, Absent) }

GeneratorOptions ==
    { Absent, Str(""), Str("Adobe_Photoshop/25.0 c2pa-rs/0.31"), Str("make_test_images"),
      Str(" Lens/2 c2pa"), Str("My_Cam\t1.0 c2pa-rs"), Str("Cam  Pro") }

IngredientOptions ==
    { Absent, Arr(<<>>),
      Arr(<<Props(<< <<"title", Str("base.jpg")>>, <<"format", Str("image/jpeg")>> >>),
            EmptyObj>>),
      Arr(<<Null>>), Str("abc") }

\* the plain manifest the other options are varied from
BaseManifest(conv) ==
    MakeManifest(conv, Str("photo.jpg"), Str("image/jpeg"),
                 Str("Adobe_Photoshop/25.0 c2pa-rs/0.31"),
                 MakeSignatureInfo(conv, Str("Acme CA"), Str("2024-01-02T03:04:05Z"),
                                   Str("1234")),
                 Arr(<<>>), Absent)

\* manifests that differ from the plain one in one field
ManifestOptions(conv) ==
    LET sig == MakeSignatureInfo(conv, Str("Acme CA"), Str("2024-01-02T03:04:05Z"),
                                 Str("1234"))
        gen == Str("Adobe_Photoshop/25.0 c2pa-rs/0.31")
    IN  {MakeManifest(conv, Absent, Absent, Absent, Absent, Absent, Absent)}
        \cup {MakeManifest(conv, Str("a<b"), Absent, gen, s, Arr(<<>>), Absent) :
                 s \in SignatureOptions(conv)}
        \cup {MakeManifest(conv, Str("photo.jpg"), Str("image/jpeg"), g, sig, a, Absent) :
                 g \in GeneratorOptions, a \in AssertionOptions}
        \cup {MakeManifest(conv, Absent, Str("image/png"), Absent, sig, Arr(<<>>), i) :
                 i \in IngredientOptions}

\* the manifests mapping of a store: absent, empty, one manifest or two
ManifestsOptions(conv) ==
    {Absent, EmptyObj}
        \cup {Props(<< <<"m1", m>> >>) : m \in ManifestOptions(conv)}
        \cup {Props(<< <<"m1", BaseManifest(conv)>>, <<"m2", m>> >>) :
                 m \in {BaseManifest(conv), EmptyObj}}

\* the active-manifest key of a store: none, the key of the first
\* manifest, a key no manifest has, a name every object inherits
KeyOptions == {Absent, Str("m1"), Str("gone"), Str("constructor")}

ManifestStores ==
    UNION { {MakeStore(conv, key, manifests, status) :
                key \in KeyOptions,
                manifests \in ManifestsOptions(conv),
                status \in {Absent, Arr(<<>>)}}
            \cup {MakeStore(conv, key, Props(<< <<"m1", BaseManifest(conv)>> >>), status) :
                key \in KeyOptions, status \in StatusOptions}
          : conv \in Conventions }

---------------------------------------------------------------------------
(* The arguments the model passes to the helpers                           *)

\* longest assertion list passed to extractAuthor and extractActions
MaxAssertions == 2

\* an assertion with a label the page does not interpret, which carries
\* author and action data all the same
OtherAssertion ==
    Props(<< <<"label", Str("c2pa.hash.data")>>,
             <<"data", Props(<< <<"author", Arr(<<Named(Str("Eve"))>>)>>,
                                <<"actions", Arr(<<Action(Str("c2pa.edited"))>>)>> >>)>> >>)

AssertionShapes ==
    { CreativeWork(Arr(<<>>)),
      CreativeWork(Arr(<<Named(Str("Jane Doe"))>>)),
      CreativeWork(Arr(<<Named(Str("John Roe")), Named(Str("Jane Doe"))>>)),
      CreativeWork(Arr(<<EmptyObj, Named(Str("Ann"))>>)),
      CreativeWork(Arr(<<Named(Str(""))>>)),
      CreativeWork(Str("Jane")),
      CreativeWork(Arr(<<Null>>)),
      Props(<< <<"label", Str("stds.schema-org.CreativeWork")>> >>),
      Actions(Arr(<<>>)),
      Actions(Arr(<<Action(Str("c2pa.created"))>>)),
      Actions(Arr(<<Action(Str("c2pa.resized")), Action(Str("c2pa.unknown_code"))>>)),
      Actions(Arr(<<EmptyObj, Action(Str("c2pa.created"))>>)),
      Actions(Arr(<<Action(Str(""))>>)),
      Actions(Num(5)),
      Actions(Arr(<<Null>>)),
      OtherAssertion,
      Null }

AssertionLists == {Arr(q) : q \in SeqsUpTo(AssertionShapes, MaxAssertions)}

\* the action codes passed to formatAction: the known ones, codes with
\* and without the c2pa. prefix, a code that holds c2pa. further in, and
\* a code that is a name every object inherits
ActionCodes ==
    DOMAIN actionMap.o
        \cup { "c2pa.unknown_code", "c2pa.published", "com.acme.sharpen_mask",
               "my.c2pa.custom_step", "c2pa.c2pa.nested", "constructor", "" }

---------------------------------------------------------------------------
(* The JSON texts the model passes to syntaxHighlight                      *)

\* the most items of an array and properties of an object
MaxItems == 2

JsonScalars ==
    { Str("x\"y"), Str(""), Str("^\n\\u0041 true: 2,"), Str("a\\"),
      Num(1), NumLit("-1.5e-7"), NumLit("1e+21"),
      Bool(TRUE), Bool(FALSE), Null }

JsonKeys == { "a", "b", "k\"q:" }

JsonArrays == {Arr(items) : items \in SeqsUpTo(JsonScalars, MaxItems)}

\* the properties of an object have distinct names
JsonObjects ==
    {Rec(pairs) : pairs \in
        {q \in SeqsUpTo(JsonKeys \X JsonScalars, MaxItems) :
            \A i, j \in 1..Len(q) : q[i][1] = q[j][1] => i = j}}

JsonNested ==
    { Rec(<< <<"a", Arr(<<Num(12), Str("x\"y")>>)>>,
             <<"b", Rec(<< <<"k\"q:", Null>>, <<"a", Arr(<<>>)>> >>)>> >>),
      Arr(<<Arr(<<Rec(<<>>)>>), Rec(<< <<"b", Bool(FALSE)>> >>), NumLit("-0.5")>>) }

JsonValues == JsonScalars \cup JsonArrays \cup JsonObjects \cup JsonNested

\* the same text with whitespace between each key and its colon
Respace(pieces) ==
    [i \in 1..Len(pieces) |->
        IF pieces[i].kind = "key"
        THEN Piece("key", SubSeq(pieces[i].text, 1, Len(pieces[i].text) - 1) \o " \t:")
        ELSE pieces[i]]

\* serialized JSON texts by their pieces: indented by 2 as processFile
\* writes them, without indentation, and with spaced keys
JsonTexts ==
    {Stringify(v, 2, 0) : v \in JsonValues}
        \cup {Stringify(v, 0, 0) : v \in JsonValues}
        \cup {Respace(Stringify(v, 0, 0)) : v \in JsonValues}

---------------------------------------------------------------------------
(* The page: showState, showError and the files given to processFile       *)

\* a showState without the line for resultsContainer, which starts hidden
showStateResultsLeft(state) ==
    [emptyState |-> state # "empty",
     loadingState |-> state # "loading",
     noDataState |-> state # "no-data",
     errorState |-> state # "error",
     resultsContainer |-> TRUE]

\* the .hidden flags showState(state) sets
showState(state) ==
    [emptyState |-> state # "empty",
     loadingState |-> state # "loading",
     noDataState |-> state # "no-data",
     errorState |-> state # "error",
     resultsContainer |-> state # "results"]

\* what can be thrown: an Error object, or another value such as a string
Error(name, message) == [t |-> "error", name |-> name, message |-> message]

\* String(error)
errorString(error) ==
    IF error.t = "error" THEN error.name \o ": " \o error.message ELSE StringOf(error)

\* whether the catch block takes the error for 'no C2PA data'
isNoDataError(error) ==
    \/ Includes(errorString(error), "No C2PA")
    \/ Includes(errorString(error), "not found")
    \/ Includes(errorString(error), "JumbfNotFound")

\* the message the catch block passes to showError
catchMessage(error) ==
    "Error processing file: "
        \o (IF error.t = "error" THEN error.message ELSE "Unknown error")

SdkMissingMessage == "C2PA SDK is not initialized. Please refresh the page."
InitFailedMessage == "Failed to initialize C2PA SDK. Please refresh the page."

\* the messages of the TypeError createCredentialDetails raises, as two
\* engines word them
TypeErrorMessages == {"assertions is not iterable", "firstAuthor is null"}

\* a settled promise
Resolved(value) == [settled |-> "resolved", value |-> value]
Rejected(error) == [settled |-> "rejected", error |-> error]

\* a reader of the SDK, as distinct from null
Reader == [t |-> "reader"]

File(name, type) == [name |-> name, type |-> type]

\* a store with one manifest, in one spelling of the field names
PlainStore(conv, title) ==
    MakeStore(conv, Str("m1"),
              Props(<< <<"m1", MakeManifest(conv, Str(title), Absent,
                                            Str("Cam_One/1.0 c2pa-rs"),
                                            Absent, Absent, Absent)>> >>),
              Absent)

DefaultImage == File("butteryfly.jpg", "image/jpeg")

\* the files the user can choose or drop, named after what the SDK does
\* with them
Files ==
    { File("ok.jpg", "image/jpeg"), File("camel.png", "image/png"),
      File("notes.txt", "text/plain"), File("noreader.jpg", "image/jpeg"),
      File("nojumbf.jpg", "image/jpeg"), File("noc2pa.jpg", "image/jpeg"),
      File("trap.jpg", "image/jpeg"), File("badstore.jpg", "image/jpeg"),
      File("nostore.jpg", "image/jpeg"), File("nofree.jpg", "image/jpeg"),
      File("gone.jpg", "image/jpeg"), File("proto.jpg", "image/jpeg"),
      File("loose.jpg", "image/jpeg") }

\* c2pa.reader.fromBlob(file.type, file)
fromBlob(file) ==
    CASE file.name \in {"noreader.jpg", "notes.txt"} -> Resolved(Null)
      [] file.name = "nojumbf.jpg" -> Rejected(Str("JumbfNotFound"))
      [] file.name = "noc2pa.jpg" -> Rejected(Error("Error", "No C2PA manifest in file"))
      [] file.name = "trap.jpg" -> Rejected(Error("RuntimeError", "unreachable"))
      [] OTHER -> Resolved(Reader)

\* reader.manifestStore() of the reader of a file
manifestStore(file) ==
    CASE file.name = "badstore.jpg" -> Rejected(Error("Error", "manifest not found"))
      [] file.name = "nostore.jpg" -> Resolved(Null)
      [] file.name = "camel.png" -> Resolved(PlainStore("camel", "camel.png"))
      [] file.name = "gone.jpg" ->
            Resolved(MakeStore("snake", Str("gone"),
                               Props(<< <<"m1", BaseManifest("snake")>> >>), Absent))
      [] file.name = "proto.jpg" ->
            Resolved(MakeStore("snake", Str("constructor"), EmptyObj, Absent))
      [] file.name = "loose.jpg" ->
            Resolved(MakeStore("snake", Str("m1"),
                               Props(<< <<"m1", MakeManifest("snake", Str("loose.jpg"),
                                                   Absent, Absent, Absent, EmptyObj,
                                                   Absent)>> >>),
                               Absent))
      [] OTHER -> Resolved(PlainStore("snake", file.name))

\* reader.free() of the reader of a file
free(file) ==
    IF file.name = "nofree.jpg" THEN Rejected(Error("Error", "free failed"))
    ELSE Resolved(Undef)

---------------------------------------------------------------------------
(* processFile, initC2pa, loadDefaultImage and the listeners               *)

\* the most processFile calls made with the SDK present
MaxCalls == 2

\* the order in which JSON.stringify meets the properties of the stores
KeyOrder ==
    << "active_manifest", "activeManifest", "manifests", "validation_status",
       "validationStatus", "m1", "m2", "title", "format", "claim_generator",
       "claimGenerator", "signature_info", "signatureInfo", "issuer", "time",
       "cert_serial_number", "certSerialNumber", "assertions", "ingredients",
       "label", "data", "author", "actions", "name", "action", "code",
       "explanation" >>

\* a value as JSON.stringify walks it: objects by their own properties
RECURSIVE ToJson(_)
ToJson(v) ==
    CASE v.t = "obj" ->
            LET keys == SelectSeq(KeyOrder, LAMBDA k : k \in DOMAIN v.o)
            IN  Rec([i \in 1..Len(keys) |-> <<keys[i], ToJson(v.o[keys[i]])>>])
      [] v.t = "arr" -> Arr([i \in 1..Len(v.a) |-> ToJson(v.a[i])])
      [] OTHER -> v

\* JSON.stringify(manifestStore, null, 2)
stringifyStore(store) == TextOf(Stringify(ToJson(store), 2, 0))

\* !activeKey || !manifestsData || !manifestsData[activeKey] is false
hasActiveManifest(storeData) ==
    LET activeKey == Or(GetProp(storeData, "active_manifest"),
                        GetProp(storeData, "activeManifest"))
        manifestsData == GetProp(storeData, "manifests")
    IN  /\ Truthy(activeKey)
        /\ Truthy(manifestsData)
        /\ Truthy(GetProp(manifestsData, StringOf(activeKey)))

NoFile == File("", "")

\* a processFile call: pc is "idle" before the call, the promise it
\* awaits while it runs, "done" after it; reader is "none", "open" once
\* fromBlob gave one, "freed" once reader.free() was called
IdleTask == [pc |-> "idle", file |-> NoFile, reader |-> "none", store |-> Undef]

\* the page as the script finds it, but for the panels' flags
PageLoaded ==
    /\ c2pa = "null"
    /\ errorMessage = ""
    /\ previewImage = ""
    /\ currentJsonData = ""
    /\ jsonOutput = <<>>
    /\ startup = "createC2pa"
    /\ tasks = [k \in 1..MaxCalls |-> IdleTask]

\* the flags the markup may give the panels: the empty panel alone
\* showing, all panels showing, none showing
InitialHidden ==
    { showState("empty"),
      [emptyState |-> FALSE, loadingState |-> FALSE, noDataState |-> FALSE,
       errorState |-> FALSE, resultsContainer |-> FALSE],
      [emptyState |-> TRUE, loadingState |-> TRUE, noDataState |-> TRUE,
       errorState |-> TRUE, resultsContainer |-> TRUE] }

\* the files a call can be given: any file for the first call, one of
\* three for a later one
LaterFiles ==
    { File("ok.jpg", "image/jpeg"), File("noreader.jpg", "image/jpeg"),
      File("badstore.jpg", "image/jpeg") }

FilesFor(k) == IF k = 1 THEN Files ELSE LaterFiles

\* the calls in flight
InFlight == {k \in 1..MaxCalls : tasks[k].pc \notin {"idle", "done"}}

\* the slot of the next call
NextSlot == Cardinality({k \in 1..MaxCalls : tasks[k].pc # "idle"}) + 1

\* how the three promises of the SDK settle for each file, computed once
sdk ==
    [file \in Files \cup {DefaultImage} |->
        [fromBlob |-> fromBlob(file),
         manifestStore |-> manifestStore(file),
         free |-> free(file)]]

\* the stores the SDK gives for the files of the model that pass the
\* active manifest check
ShownStores ==
    {manifestStore(file).value : file \in
        {f \in Files \cup {DefaultImage} :
            /\ manifestStore(f).settled = "resolved"
            /\ Truthy(manifestStore(f).value)
            /\ hasActiveManifest(manifestStore(f).value)}}

\* what createCredentialDetails, JSON.stringify and syntaxHighlight
\* give for each of these stores, computed once
processed ==
    [store \in ShownStores |->
        [threw |-> createCredentialDetails(store).threw,
         html |-> createCredentialDetails(store).html,
         json |-> stringifyStore(store),
         code |-> syntaxHighlight(stringifyStore(store))]]

---------------------------------------------------------------------------
(* The calls                                                               *)

Init ==
    /\ credentialDetails = <<>>
    /\ call \in {[fn |-> "createCredentialDetails", arg |-> store] :
                    store \in ManifestStores}
               \cup {[fn |-> "extractAuthor", arg |-> a] : a \in AssertionLists}
               \cup {[fn |-> "extractActions", arg |-> a] : a \in AssertionLists}
               \cup {[fn |-> "formatAction", arg |-> c] : c \in ActionCodes}
               \cup {[fn |-> "syntaxHighlight", arg |-> TextOf(pieces),
                       pieces |-> pieces] : pieces \in JsonTexts}
    /\ pc = "call"
    /\ ret = Undef
    /\ PageLoaded
    /\ hidden = showState("empty")

\* createCredentialDetails(store): the panel is emptied first; when the
\* function raises, the panel stays empty
CreateCredentialDetails ==
    /\ pc = "call"
    /\ call.fn = "createCredentialDetails"
    /\ LET r == createCredentialDetails(call.arg)
       IN  /\ credentialDetails' = detailsPanelAfter(credentialDetails, call.arg)
           /\ ret' = IF r.threw THEN Throw ELSE Undef
    /\ pc' = "done"
    /\ UNCHANGED call
    /\ UNCHANGED pageVars

\* extractAuthor(assertions)
ExtractAuthor ==
    /\ pc = "call"
    /\ call.fn = "extractAuthor"
    /\ ret' = extractAuthor(call.arg)
    /\ pc' = "done"
    /\ UNCHANGED <<call, credentialDetails>>
    /\ UNCHANGED pageVars

\* extractActions(assertions): the list of action strings, or Throw
ExtractActions ==
    /\ pc = "call"
    /\ call.fn = "extractActions"
    /\ LET r == extractActions(call.arg)
       IN  ret' = IF r.threw THEN Throw ELSE [t |-> "list", a |-> r.actions]
    /\ pc' = "done"
    /\ UNCHANGED <<call, credentialDetails>>
    /\ UNCHANGED pageVars

\* formatAction(action)
FormatAction ==
    /\ pc = "call"
    /\ call.fn = "formatAction"
    /\ ret' = formatAction(call.arg)
    /\ pc' = "done"
    /\ UNCHANGED <<call, credentialDetails>>
    /\ UNCHANGED pageVars

\* syntaxHighlight(json): the markup as its sequence of runs
SyntaxHighlight ==
    /\ pc = "call"
    /\ call.fn = "syntaxHighlight"
    /\ ret' = [t |-> "markup", a |-> syntaxHighlight(call.arg)]
    /\ pc' = "done"
    /\ UNCHANGED <<call, credentialDetails>>
    /\ UNCHANGED pageVars

Next ==
    \/ CreateCredentialDetails
    \/ ExtractAuthor
    \/ ExtractActions
    \/ FormatAction
    \/ SyntaxHighlight

Spec == Init /\ [][Next]_vars

---------------------------------------------------------------------------
(* createCredentialDetails called again and again, as for file after file  *)

\* stores of every branch: no manifest to show, a full summary with and
\* without issues, and stores on which the function raises
RepeatStores ==
    { MakeStore("snake", Absent, Absent, Absent),
      MakeStore("snake", Str("gone"), Props(<< <<"m1", BaseManifest("snake")>> >>),
                Absent),
      MakeStore("camel", Str("constructor"), EmptyObj, Absent),
      PlainStore("snake", "ok.jpg"),
      PlainStore("camel", "camel.png"),
      MakeStore("snake", Str("m1"), Props(<< <<"m1", BaseManifest("snake")>> >>),
                Arr(<<Props(<< <<"code", Str("signingCredential.untrusted")>>,
                               <<"explanation", Str("x")>> >>)>>)),
      MakeStore("camel", Str("m1"),
                Props(<< <<"m1", MakeManifest("camel", Str("a<b"), Str("image/png"),
                                              Str("make_test_images"), Absent,
                                              Arr(<<CreativeWork(Arr(<<Named(Str("Jane Doe"))>>)),
                                                    Actions(Arr(<<Action(Str("c2pa.created"))>>))>>),
                                              Arr(<<EmptyObj>>))>> >>),
                Absent),
      MakeStore("snake", Str("m1"),
                Props(<< <<"m1", MakeManifest("snake", Str("loose.jpg"), Absent, Absent,
                                              Absent, EmptyObj, Absent)>> >>),
                Absent),
      MakeStore("snake", Str("m1"), Props(<< <<"m1", BaseManifest("snake")>> >>),
                Num(5)),
      MakeStore("snake", Str("m1"),
                Props(<< <<"m1", MakeManifest("snake", Absent, Absent, Absent, Absent,
                                              Absent, Str("abc"))>> >>),
                Absent) }

RepeatInit ==
    /\ credentialDetails = <<>>
    /\ call \in {[fn |-> "createCredentialDetails", arg |-> store] :
                    store \in RepeatStores}
    /\ pc = "call"
    /\ ret = Undef
    /\ PageLoaded
    /\ hidden = showState("empty")

\* the next call, with another store; after is the store of the call before
CallAgain ==
    /\ pc = "done"
    /\ \E store \in RepeatStores :
           call' = [fn |-> "createCredentialDetails", arg |-> store,
                    after |-> call.arg]
    /\ pc' = "call"
    /\ ret' = Undef
    /\ UNCHANGED credentialDetails
    /\ UNCHANGED pageVars

RepeatNext ==
    \/ CreateCredentialDetails
    \/ CallAgain

RepeatSpec == RepeatInit /\ [][RepeatNext]_vars

---------------------------------------------------------------------------
(* The page at work: the startup, the listeners and the processFile calls  *)

callVars == <<call, pc, ret>>

FileInit ==
    /\ credentialDetails = <<>>
    /\ call = [fn |-> "processFile", arg |-> NoFile]
    /\ pc = "page"
    /\ ret = Undef
    /\ PageLoaded
    /\ hidden \in InitialHidden

\* processFile(file) up to its first await
StartProcessFile(file) ==
    IF c2pa = "null"
    THEN /\ errorMessage' = SdkMissingMessage
         /\ hidden' = showState("error")
         /\ UNCHANGED <<previewImage, tasks>>
    ELSE /\ NextSlot <= MaxCalls
         /\ file \in FilesFor(NextSlot) \cup {DefaultImage}
         /\ previewImage' = file.name
         /\ hidden' = showState("loading")
         /\ tasks' = [tasks EXCEPT ![NextSlot] =
                         [pc |-> "fromBlob", file |-> file, reader |-> "none",
                          store |-> Undef]]
         /\ UNCHANGED errorMessage

\* a catch block that ends the call and shows nothing
CatchSilently(k, error) ==
    /\ tasks' = [tasks EXCEPT ![k].pc = "done"]
    /\ UNCHANGED <<hidden, errorMessage>>

\* the catch block of processFile, entered by call k with an error
Catch(k, error) ==
    /\ IF isNoDataError(error)
       THEN /\ hidden' = showState("no-data")
            /\ UNCHANGED errorMessage
       ELSE /\ errorMessage' = catchMessage(error)
            /\ hidden' = showState("error")
    /\ tasks' = [tasks EXCEPT ![k].pc = "done"]

\* createC2pa resolves: the SDK is there and loadDefaultImage fetches
CreateC2paResolves ==
    /\ startup = "createC2pa"
    /\ c2pa' = "sdk"
    /\ startup' = "fetch"
    /\ UNCHANGED <<credentialDetails, callVars, hidden, errorMessage, previewImage,
                   currentJsonData, jsonOutput, tasks>>

\* createC2pa rejects: the catch block of initC2pa
CreateC2paRejects ==
    /\ startup = "createC2pa"
    /\ errorMessage' = InitFailedMessage
    /\ hidden' = showState("error")
    /\ startup' = "failed"
    /\ UNCHANGED <<credentialDetails, callVars, c2pa, previewImage,
                   currentJsonData, jsonOutput, tasks>>

\* the default image arrives: loadDefaultImage calls processFile
FetchResolves ==
    /\ startup = "fetch"
    /\ StartProcessFile(DefaultImage)
    /\ startup' = "done"
    /\ UNCHANGED <<credentialDetails, callVars, c2pa, currentJsonData, jsonOutput>>

\* the default image is not there, or the fetch fails
FetchFails ==
    /\ startup = "fetch"
    /\ startup' = "done"
    /\ UNCHANGED <<credentialDetails, callVars, c2pa, hidden, errorMessage,
                   previewImage, currentJsonData, jsonOutput, tasks>>

\* the change listener of fileInput
FileInputChange ==
    \E file \in Files :
        /\ StartProcessFile(file)
        /\ UNCHANGED <<credentialDetails, callVars, c2pa, currentJsonData,
                       jsonOutput, startup>>

\* the drop listener of dropZone: images only
Drop ==
    \E file \in Files :
        /\ StartsWith(file.type, "image/")
        /\ StartProcessFile(file)
        /\ UNCHANGED <<credentialDetails, callVars, c2pa, currentJsonData,
                       jsonOutput, startup>>

\* the promise of c2pa.reader.fromBlob settles for call k
FromBlobSettles(k) ==
    /\ tasks[k].pc = "fromBlob"
    /\ LET r == sdk[tasks[k].file].fromBlob
       IN  IF r.settled = "rejected" THEN Catch(k, r.error)
           ELSE IF ~Truthy(r.value)
           THEN /\ hidden' = showState("no-data")
                /\ tasks' = [tasks EXCEPT ![k].pc = "done"]
                /\ UNCHANGED errorMessage
           ELSE /\ tasks' = [tasks EXCEPT ![k].pc = "manifestStore",
                                          ![k].reader = "open"]
                /\ UNCHANGED <<hidden, errorMessage>>
    /\ UNCHANGED <<credentialDetails, callVars, c2pa, previewImage,
                   currentJsonData, jsonOutput, startup>>

\* the promise of reader.manifestStore() settles for call k; when it
\* resolves, reader.free() is called
ManifestStoreSettles(k) ==
    /\ tasks[k].pc = "manifestStore"
    /\ LET r == sdk[tasks[k].file].manifestStore
       IN  IF r.settled = "rejected" THEN Catch(k, r.error)
           ELSE /\ tasks' = [tasks EXCEPT ![k].pc = "free",
                                          ![k].reader = "freed",
                                          ![k].store = r.value]
                /\ UNCHANGED <<hidden, errorMessage>>
    /\ UNCHANGED <<credentialDetails, callVars, c2pa, previewImage,
                   currentJsonData, jsonOutput, startup>>

\* the promise of reader.free() settles for call k; when it resolves,
\* the rest of processFile runs to its end
FreeSettles(k) ==
    /\ tasks[k].pc = "free"
    /\ IF sdk[tasks[k].file].free.settled = "rejected"
       THEN /\ Catch(k, sdk[tasks[k].file].free.error)
            /\ UNCHANGED <<credentialDetails, currentJsonData, jsonOutput>>
       ELSE IF ~Truthy(tasks[k].store) \/ ~hasActiveManifest(tasks[k].store)
       THEN /\ hidden' = showState("no-data")
            /\ tasks' = [tasks EXCEPT ![k].pc = "done"]
            /\ UNCHANGED <<errorMessage, credentialDetails, currentJsonData,
                           jsonOutput>>
       ELSE IF processed[tasks[k].store].threw
       THEN /\ credentialDetails' = clearedPanel(credentialDetails)
            /\ \E message \in TypeErrorMessages :
                   Catch(k, Error("TypeError", message))
            /\ UNCHANGED <<currentJsonData, jsonOutput>>
       ELSE /\ credentialDetails' = processed[tasks[k].store].html
            /\ currentJsonData' = processed[tasks[k].store].json
            /\ jsonOutput' = processed[tasks[k].store].code
            /\ hidden' = showState("results")
            /\ tasks' = [tasks EXCEPT ![k].pc = "done"]
            /\ UNCHANGED errorMessage
    /\ UNCHANGED <<callVars, c2pa, previewImage, startup>>

FileNext ==
    \/ CreateC2paResolves
    \/ CreateC2paRejects
    \/ FetchResolves
    \/ FetchFails
    \/ FileInputChange
    \/ Drop
    \/ \E k \in 1..MaxCalls : FromBlobSettles(k)
    \/ \E k \in 1..MaxCalls : ManifestStoreSettles(k)
    \/ \E k \in 1..MaxCalls : FreeSettles(k)

FileSpec == FileInit /\ [][FileNext]_vars

\* every promise of the SDK settles
FileFairness ==
    \A k \in 1..MaxCalls :
        /\ WF_vars(FromBlobSettles(k))
        /\ WF_vars(ManifestStoreSettles(k))
        /\ WF_vars(FreeSettles(k))

LiveFileSpec == FileSpec /\ FileFairness


---------------------------------------------------------------------------
(* What the claims speak of                                                *)

Done(fn) == pc = "done" /\ call.fn = fn

\* a field of a record of the data model, under whichever spelling it has
FieldOf(obj, snake, camel) ==
    IF snake \in DOMAIN obj.o THEN obj.o[snake]
    ELSE IF camel \in DOMAIN obj.o THEN obj.o[camel]
    ELSE Undef

KeyOfStore(store) == FieldOf(store, "active_manifest", "activeManifest")
ManifestsOfStore(store) == FieldOf(store, "manifests", "manifests")
StatusOfStore(store) == FieldOf(store, "validation_status", "validationStatus")

\* the active-manifest key is a string that names a manifest of the store
HasValidKey(store) ==
    /\ KeyOfStore(store).t = "str"
    /\ ManifestsOfStore(store).t = "obj"
    /\ KeyOfStore(store).s \in DOMAIN ManifestsOfStore(store).o

\* the validation status is what the data model says: a list, or nothing
StatusIsList(store) == StatusOfStore(store).t \in {"undef", "null", "arr"}

\* whether the panel holds a block of the given section
HasBlock(section) ==
    \E i \in 1..Len(credentialDetails) : credentialDetails[i].section = section

BlockOf(section) ==
    credentialDetails[CHOOSE i \in 1..Len(credentialDetails) :
                          credentialDetails[i].section = section]

\* the other spelling of a field name that has two
OtherSpelling(k) ==
    CASE k = "active_manifest" -> "activeManifest"
      [] k = "activeManifest" -> "active_manifest"
      [] k = "validation_status" -> "validationStatus"
      [] k = "validationStatus" -> "validation_status"
      [] k = "signature_info" -> "signatureInfo"
      [] k = "signatureInfo" -> "signature_info"
      [] k = "cert_serial_number" -> "certSerialNumber"
      [] k = "certSerialNumber" -> "cert_serial_number"
      [] k = "claim_generator" -> "claimGenerator"
      [] k = "claimGenerator" -> "claim_generator"
      [] OTHER -> k

\* a signature info in the other spelling
RespellSignature(v) ==
    IF v.t # "obj" THEN v
    ELSE Obj([k \in {OtherSpelling(n) : n \in DOMAIN v.o} |-> v.o[OtherSpelling(k)]])

\* a manifest in the other spelling: its own fields and those of its
\* signature info
RespellManifest(m) ==
    IF m.t # "obj" THEN m
    ELSE Obj([k \in {OtherSpelling(n) : n \in DOMAIN m.o} |->
                 IF k \in {"signature_info", "signatureInfo"}
                 THEN RespellSignature(m.o[OtherSpelling(k)])
                 ELSE m.o[OtherSpelling(k)]])

\* a store in the other spelling
RespellStore(store) ==
    Obj([k \in {OtherSpelling(n) : n \in DOMAIN store.o} |->
            IF k = "manifests" /\ store.o[k].t = "obj"
            THEN Obj([m \in DOMAIN store.o[k].o |-> RespellManifest(store.o[k].o[m])])
            ELSE store.o[OtherSpelling(k)]])

---------------------------------------------------------------------------
(* C1 *)

\* C1: for a store of the data model whose active-manifest key names one
\* of its manifests, createCredentialDetails leaves the same panel (and
\* raises in the same cases) for the store spelled in the other naming
\* convention.
C1_SnakeCamelEquivalence ==
    ( /\ Done("createCredentialDetails")
      /\ HasValidKey(call.arg)
      /\ StatusIsList(call.arg) )
    => createCredentialDetails(RespellStore(call.arg))
           = [threw |-> ret = Throw, html |-> credentialDetails]

\* a camelCase store with signature info, claim generator and an issue,
\* whose snake_case spelling is another value
C1_Witness ==
    /\ Done("createCredentialDetails")
    /\ HasValidKey(call.arg)
    /\ "activeManifest" \in DOMAIN call.arg.o
    /\ RespellStore(call.arg) # call.arg
    /\ "active_manifest" \in DOMAIN RespellStore(call.arg).o
    /\ ret # Throw
    /\ HasBlock("signer")
    /\ HasBlock("process")
    /\ BlockOf("validation").class = "has-errors"

---------------------------------------------------------------------------
(* C2 *)

\* C2: createCredentialDetails never raises, whatever the shape of the
\* fields of the store.
C2_NeverThrows == Done("createCredentialDetails") => ret # Throw

---------------------------------------------------------------------------
(* C3 *)

\* no active-manifest key, or no manifests, or a key that names no
\* manifest of the store
NoManifestResolvable(store) ==
    \/ KeyOfStore(store).t # "str"
    \/ ManifestsOfStore(store).t # "obj"
    \/ KeyOfStore(store).s \notin DOMAIN ManifestsOfStore(store).o

\* C3: when the store has no active-manifest key, or no manifests, or
\* the key names no manifest of the store, createCredentialDetails does
\* not raise and the panel holds the no-details marker and nothing else.
C3_AbsentManifestMarker ==
    (Done("createCredentialDetails") /\ NoManifestResolvable(call.arg))
    => (ret # Throw /\ credentialDetails = <<NoDetailsMarker>>)

---------------------------------------------------------------------------
(* C4 *)

\* whether an entry's code starts with 'claim'; an entry without a code
\* has none that does
CodeStartsWithClaim(entry) ==
    /\ "code" \in DOMAIN entry.o
    /\ entry.o["code"].t = "str"
    /\ StartsWith(entry.o["code"].s, "claim")

\* the entries of a status list that the claim counts as issues
ClaimedIssueCount(status) ==
    Cardinality({i \in 1..Len(status.a) : ~CodeStartsWithClaim(status.a[i])})

\* C4: an entry is an issue iff its code does not start with 'claim',
\* entries with an empty or missing code included; the badge carries
\* the number of issues when there is one at least, and the verified
\* text otherwise.
C4_VerdictCountsNonClaim ==
    ( /\ Done("createCredentialDetails")
      /\ ret # Throw
      /\ HasBlock("validation")
      /\ StatusOfStore(call.arg).t = "arr" )
    => LET n == ClaimedIssueCount(StatusOfStore(call.arg))
       IN  /\ Len(BlockOf("validation").issues) = n
           /\ BlockOf("validation").badge =
                  IF n > 0
                  THEN NatToString(n) \o " Issue" \o (IF n # 1 THEN "s" ELSE "")
                  ELSE "Content Credentials Verified"

---------------------------------------------------------------------------
(* C5 *)

\* the validation status of the example
ExampleStatus ==
    Arr(<< Props(<< <<"code", Str("claim.signingCredential.trusted")>> >>),
           Props(<< <<"code", Str("signingCredential.untrusted")>>,
                    <<"explanation", Str("x")>> >>) >>)

\* the case of the example: a summary was built for a store with the
\* example's validation status
ExampleCase ==
    /\ Done("createCredentialDetails")
    /\ ret # Throw
    /\ HasBlock("validation")
    /\ StatusOfStore(call.arg) = ExampleStatus

---------------------------------------------------------------------------
(* C6 *)

\* the author list of an assertion labelled stds.schema-org.CreativeWork,
\* and the empty list for any other assertion
AuthorListOf(a) ==
    IF /\ a.t = "obj"
       /\ "label" \in DOMAIN a.o
       /\ a.o["label"] = Str("stds.schema-org.CreativeWork")
       /\ "data" \in DOMAIN a.o
       /\ a.o["data"].t = "obj"
       /\ "author" \in DOMAIN a.o["data"].o
       /\ a.o["data"].o["author"].t = "arr"
    THEN a.o["data"].o["author"].a
    ELSE <<>>

\* the name of the first author of an assertion that has authors; ''
\* when that entry has no name
FirstAuthorName(a) ==
    LET first == AuthorListOf(a)[1]
    IN  IF first.t = "obj" /\ "name" \in DOMAIN first.o /\ first.o["name"].t = "str"
        THEN first.o["name"].s
        ELSE ""

\* the assertions and the author entries are objects, as in the data model
AuthorInputOk(items) ==
    \A i \in 1..Len(items) :
        /\ items[i].t = "obj"
        /\ \A j \in 1..Len(AuthorListOf(items[i])) : AuthorListOf(items[i])[j].t = "obj"

Least(S) == CHOOSE i \in S : \A j \in S : i <= j

\* C6 as amended: extractAuthor returns the name of the first author
\* entry of the first assertion, in order, that is labelled
\* stds.schema-org.CreativeWork, has a non-empty author list and whose
\* first author entry has a non-empty name, and null when there is none;
\* an assertion whose author list is empty, or whose first author has no
\* name, is skipped and the later assertions are consulted.
C6_FirstNamedAuthor ==
    (Done("extractAuthor") /\ AuthorInputOk(call.arg.a))
    => LET items == call.arg.a
           named == {i \in 1..Len(items) :
                        /\ Len(AuthorListOf(items[i])) > 0
                        /\ FirstAuthorName(items[i]) # ""}
       IN  ret = IF named = {} THEN Null
                 ELSE Str(FirstAuthorName(items[Least(named)]))

\* C6 as stated: the first assertion with a non-empty author list
\* decides, also when its first author entry has no name
C6_AsStated ==
    (Done("extractAuthor") /\ AuthorInputOk(call.arg.a))
    => LET items == call.arg.a
           withAuthors == {i \in 1..Len(items) : Len(AuthorListOf(items[i])) > 0}
       IN  ret = IF withAuthors = {} THEN Null
                 ELSE IF FirstAuthorName(items[Least(withAuthors)]) = "" THEN Null
                 ELSE Str(FirstAuthorName(items[Least(withAuthors)]))

\* an assertion with an empty author list was skipped, and the name
\* came from the assertion after it
C6_Witness ==
    /\ Done("extractAuthor")
    /\ AuthorInputOk(call.arg.a)
    /\ Len(call.arg.a) = 2
    /\ call.arg.a[1] = CreativeWork(Arr(<<>>))
    /\ Len(AuthorListOf(call.arg.a[2])) > 0
    /\ ret = Str("Jane Doe")

---------------------------------------------------------------------------
(* C7 *)

\* the action list of an assertion labelled c2pa.actions, and the empty
\* list for any other assertion
ActionListOf(a) ==
    IF /\ a.t = "obj"
       /\ "label" \in DOMAIN a.o
       /\ a.o["label"] = Str("c2pa.actions")
       /\ "data" \in DOMAIN a.o
       /\ a.o["data"].t = "obj"
       /\ "actions" \in DOMAIN a.o["data"].o
       /\ a.o["data"].o["actions"].t = "arr"
    THEN a.o["data"].o["actions"].a
    ELSE <<>>

\* the action string of an entry; '' when it has none
ActionOf(entry) ==
    IF entry.t = "obj" /\ "action" \in DOMAIN entry.o /\ entry.o["action"].t = "str"
    THEN entry.o["action"].s
    ELSE ""

\* the assertions are objects, and the action lists are lists of objects
ActionInputOk(items) ==
    \A i \in 1..Len(items) :
        /\ items[i].t = "obj"
        /\ ( /\ "label" \in DOMAIN items[i].o
             /\ items[i].o["label"] = Str("c2pa.actions")
             /\ "data" \in DOMAIN items[i].o )
           => /\ items[i].o["data"].t = "obj"
              /\ "actions" \in DOMAIN items[i].o["data"].o
                     => items[i].o["data"].o["actions"].t = "arr"
        /\ \A j \in 1..Len(ActionListOf(items[i])) : ActionListOf(items[i])[j].t = "obj"

\* the places <<assertion, entry>> of the action entries
ActionPlaces(items) ==
    UNION {{<<i, j>> : j \in 1..Len(ActionListOf(items[i]))} : i \in 1..Len(items)}

\* p comes before q: an earlier assertion, or earlier in the same list
PlaceBefore(p, q) == p[1] < q[1] \/ (p[1] = q[1] /\ p[2] < q[2])

\* the position of place p among the places P, in order
PlaceRank(p, P) == Cardinality({q \in P : PlaceBefore(q, p)}) + 1

\* the result is the list of the action strings at the places P, in order
IsActionsAt(result, items, P) ==
    /\ result.t = "list"
    /\ Len(result.a) = Cardinality(P)
    /\ \A p \in P : result.a[PlaceRank(p, P)] = ActionOf(ActionListOf(items[p[1]])[p[2]])

\* C7 as amended: extractActions returns, in assertion order and then in
\* list order, the action string of every entry that has a non-empty
\* one, of every assertion labelled c2pa.actions, duplicates kept, all
\* such assertions contributing and the others nothing; the length of the
\* result is the number of entries with a non-empty action string.
C7_AllActionsInOrder ==
    (Done("extractActions") /\ ActionInputOk(call.arg.a))
    => IsActionsAt(ret, call.arg.a,
                   {p \in ActionPlaces(call.arg.a) :
                       ActionOf(ActionListOf(call.arg.a[p[1]])[p[2]]) # ""})

\* C7 as stated: the length of the result is the number of action entries
C7_AsStated ==
    (Done("extractActions") /\ ActionInputOk(call.arg.a))
    => IsActionsAt(ret, call.arg.a, ActionPlaces(call.arg.a))

\* two c2pa.actions assertions contributed, three actions in all
C7_Witness ==
    /\ Done("extractActions")
    /\ ActionInputOk(call.arg.a)
    /\ Len(call.arg.a) = 2
    /\ Len(ActionListOf(call.arg.a[1])) = 1
    /\ Len(ActionListOf(call.arg.a[2])) = 2
    /\ ret = [t |-> "list", a |-> <<"c2pa.created", "c2pa.resized", "c2pa.unknown_code">>]

---------------------------------------------------------------------------
(* C8 *)

\* s without the prefix p, when it starts with it
StripPrefix(s, p) == IF StartsWith(s, p) THEN SubSeq(s, Len(p) + 1, Len(s)) ELSE s

\* C8: formatAction gives a known code its label, and any other code
\* that code with a leading 'c2pa.' stripped and each underscore
\* replaced by a space.
C8_LabelOrStrippedPrefix ==
    Done("formatAction")
    => ret = IF call.arg \in DOMAIN actionMap.o THEN actionMap.o[call.arg]
             ELSE Str(ReplaceAllChar(StripPrefix(call.arg, "c2pa."), "_", " "))

---------------------------------------------------------------------------
(* C9 *)

\* the first whitespace-separated token of a string
RECURSIVE SkipSpace(_)
SkipSpace(s) ==
    IF s # "" /\ IsSpaceChar(CharAt(s, 1)) THEN SkipSpace(Tail(s)) ELSE s

RECURSIVE TakeToken(_)
TakeToken(s) ==
    IF s = "" \/ IsSpaceChar(CharAt(s, 1)) THEN ""
    ELSE CharAt(s, 1) \o TakeToken(Tail(s))

FirstToken(s) == TakeToken(SkipSpace(s))

\* the claim generator of the active manifest of a store with a valid key
GeneratorOfStore(store) ==
    FieldOf(ManifestsOfStore(store).o[KeyOfStore(store).s],
            "claim_generator", "claimGenerator")

\* C9: the app name shown is the first token of the claim generator
\* split on whitespace of any kind, with each underscore and slash of
\* the token replaced by a space.
C9_AppNameFirstToken ==
    ( /\ Done("createCredentialDetails")
      /\ ret # Throw
      /\ HasValidKey(call.arg)
      /\ ManifestsOfStore(call.arg).o[KeyOfStore(call.arg).s].t = "obj"
      /\ GeneratorOfStore(call.arg).t = "str"
      /\ GeneratorOfStore(call.arg).s # "" )
    => /\ HasBlock("process")
       /\ BlockOf("process").appName =
              escapeHtml(ReplaceAllChar(
                  ReplaceAllChar(FirstToken(GeneratorOfStore(call.arg).s), "_", " "),
                  "/", " "))

---------------------------------------------------------------------------
(* C10: syntaxHighlight                                                    *)

\* the runs the lexical pieces of a text call for: each token in one
\* span of its category (a key with its colon), every other character
\* outside any span
RECURSIVE ExpectedRuns(_)
ExpectedRuns(pieces) ==
    IF pieces = <<>> THEN <<>>
    ELSE (IF pieces[1].kind = "punct"
          THEN [i \in 1..Len(pieces[1].text) |->
                   [cls |-> "", text |-> CharAt(pieces[1].text, i)]]
          ELSE <<[cls |-> "json-" \o pieces[1].kind, text |-> pieces[1].text]>>)
             \o ExpectedRuns(Tail(pieces))

ExampleJson == "{\"a\":1,\"b\":\"x\\\"y\"}"

ExampleRuns ==
    << [cls |-> "", text |-> "{"],
       [cls |-> "json-key", text |-> "\"a\":"],
       [cls |-> "json-number", text |-> "1"],
       [cls |-> "", text |-> ","],
       [cls |-> "json-key", text |-> "\"b\":"],
       [cls |-> "json-string", text |-> "\"x\\\"y\""],
       [cls |-> "", text |-> "}"] >>

\* C10: for a serialized JSON text, syntaxHighlight puts every string,
\* number, boolean and null token in exactly one span of its lexical
\* category, tags as json-key exactly the strings followed (after
\* optional whitespace) by a colon, finds the string boundaries where
\* quotes and unicode escapes are escaped, and leaves the other text
\* as it is: the text of the runs, joined, is the input.  In
\* {"a":1,"b":"x\"y"} "a" is a key, 1 a number and "x\"y" one string.
C10_TokensTaggedTextKept ==
    Done("syntaxHighlight")
    => /\ ret.t = "markup"
       /\ ret.a = ExpectedRuns(call.pieces)
       /\ TextOf(ret.a) = call.arg
       /\ call.arg = ExampleJson => ret.a = ExampleRuns

\* the example text, with its escaped quote, was highlighted
C10_Witness ==
    /\ Done("syntaxHighlight")
    /\ call.arg = ExampleJson
    /\ ret.a = ExampleRuns

---------------------------------------------------------------------------
(* C11: the summary is computed afresh for every store                     *)

\* C11: after any sequence of createCredentialDetails calls the details
\* panel is what one call with the last store on an empty panel gives,
\* whichever branch the earlier calls took, and the call leaves its
\* store as it was.
C11_PanelOfLastStoreOnly ==
    /\ [](Done("createCredentialDetails")
            => credentialDetails = detailsPanelAfter(<<>>, call.arg))
    /\ [][(pc = "call" /\ pc' = "done") => call'.arg = call.arg]_vars

\* a call that raised came after a call that rendered a full summary,
\* and the panel is empty
C11_Witness ==
    /\ Done("createCredentialDetails")
    /\ "after" \in DOMAIN call
    /\ ~createCredentialDetails(call.after).threw
    /\ Len(createCredentialDetails(call.after).html) > 1
    /\ createCredentialDetails(call.arg).threw
    /\ credentialDetails = <<>>

---------------------------------------------------------------------------
(* C12..C16: processFile                                                   *)

PanelStates == {"empty", "loading", "no-data", "error", "results"}

PanelOf(s) ==
    CASE s = "empty" -> "emptyState"
      [] s = "loading" -> "loadingState"
      [] s = "no-data" -> "noDataState"
      [] s = "error" -> "errorState"
      [] s = "results" -> "resultsContainer"

\* the states whose panel is showing
Visible == {s \in PanelStates : ~hidden[PanelOf(s)]}

\* the calls made so far with the SDK present
Started == {k \in 1..MaxCalls : tasks[k].pc # "idle"}

\* one call was made, and it has finished
RanAlone == Started = {1} /\ tasks[1].pc = "done"

\* C12: every reader processFile obtains from fromBlob is freed by a
\* call of reader.free() before processFile finishes, on every path, the
\* one where reader.manifestStore() fails included.
C12_ReaderFreed ==
    \A k \in 1..MaxCalls :
        (tasks[k].pc = "done" /\ tasks[k].reader # "none")
            => tasks[k].reader = "freed"

\* whether the active-manifest key of a store is the key of one of its
\* manifests
IndexesManifest(store) ==
    /\ store.t = "obj"
    /\ KeyOfStore(store).t = "str"
    /\ ManifestsOfStore(store).t = "obj"
    /\ KeyOfStore(store).s \in DOMAIN ManifestsOfStore(store).o
    /\ Truthy(ManifestsOfStore(store).o[KeyOfStore(store).s])

\* the state a thrown error leads to
EndOfError(error) ==
    IF \E needle \in {"No C2PA", "not found", "JumbfNotFound"} :
           Includes(errorString(error), needle)
    THEN "no-data" ELSE "error"

\* the state in which processFile is to end for a file, by the results
\* of the SDK for it
ClaimedEnd(file) ==
    IF fromBlob(file).settled = "rejected" THEN EndOfError(fromBlob(file).error)
    ELSE IF fromBlob(file).value = Null THEN "no-data"
    ELSE IF manifestStore(file).settled = "rejected"
         THEN EndOfError(manifestStore(file).error)
    ELSE IF free(file).settled = "rejected" THEN EndOfError(free(file).error)
    ELSE IF manifestStore(file).value = Null THEN "no-data"
    ELSE IF ~IndexesManifest(manifestStore(file).value) THEN "no-data"
    ELSE IF createCredentialDetails(manifestStore(file).value).threw THEN "error"
    ELSE "results"

\* C13: processFile, run alone with the SDK present, ends in 'results'
\* exactly when the SDK gave a reader and a store whose active-manifest
\* key indexes an existing manifest and no step threw; in 'no-data' when
\* the reader or the store is null, the manifest does not resolve or the
\* text of a thrown error holds 'No C2PA', 'not found' or
\* 'JumbfNotFound'; in 'error' for another error.  Without the SDK it
\* ends in 'error', the preview untouched and the SDK not called.
C13_EndStates ==
    /\ RanAlone => Visible = {ClaimedEnd(tasks[1].file)}
    /\ c2pa = "null" => /\ previewImage = ""
                        /\ Started = {}
                        /\ errorMessage = SdkMissingMessage => Visible = {"error"}

\* C14: after any call of showState or showError exactly one of the
\* five panels is showing and the other four are hidden: every step
\* that changes a panel's flag, under any sequence of file choices,
\* drops and SDK results, leaves exactly one panel showing.
C14_ExactlyOnePanel ==
    [][hidden' # hidden
          => Cardinality({p \in DOMAIN hidden' : ~hidden'[p]}) = 1]_vars

\* a call has shown the results panel, and it alone shows
C14_Witness ==
    /\ \E k \in 1..MaxCalls : tasks[k].pc = "done"
    /\ Visible = {"results"}

\* C15: the page does not stay in 'loading'.  With every promise of the
\* SDK settling, every processFile call that showed 'loading' finishes;
\* when calls were made and none is in flight, the state showing is
\* 'no-data', 'error' or 'results'; and an exception raised while the
\* details panel is built leads to 'error'.
C15_NeverStuckLoading ==
    /\ \A k \in 1..MaxCalls : (tasks[k].pc # "idle") ~> (tasks[k].pc = "done")
    /\ []((Started # {} /\ InFlight = {})
             => Visible \in {{"no-data"}, {"error"}, {"results"}})
    /\ [][\A k \in 1..MaxCalls :
             ( /\ tasks[k].pc = "free"
               /\ tasks'[k].pc = "done"
               /\ sdk[tasks[k].file].free.settled = "resolved"
               /\ tasks[k].store \in ShownStores
               /\ processed[tasks[k].store].threw )
             => /\ {p \in DOMAIN hidden' : ~hidden'[p]} = {"errorState"}
                /\ errorMessage' \in {catchMessage(Error("TypeError", m)) :
                                         m \in TypeErrorMessages}]_vars

\* a call whose details panel could not be built has finished, with
\* another call finished too, and the error panel shows
C15_Witness ==
    /\ InFlight = {}
    /\ Cardinality(Started) > 1
    /\ \E k \in Started : /\ tasks[k].file.name = "loose.jpg"
                          /\ tasks[k].reader = "freed"
    /\ Visible = {"error"}

\* the state the code ends in for a file processed alone
EndAlone(file) ==
    IF fromBlob(file).settled = "rejected" THEN EndOfError(fromBlob(file).error)
    ELSE IF fromBlob(file).value = Null THEN "no-data"
    ELSE IF manifestStore(file).settled = "rejected"
         THEN EndOfError(manifestStore(file).error)
    ELSE IF free(file).settled = "rejected" THEN EndOfError(free(file).error)
    ELSE IF ~Truthy(manifestStore(file).value) THEN "no-data"
    ELSE IF ~hasActiveManifest(manifestStore(file).value) THEN "no-data"
    ELSE IF createCredentialDetails(manifestStore(file).value).threw THEN "error"
    ELSE "results"

\* the file of the call started last
LastFile == tasks[Cardinality(Started)].file

\* C16: when processFile calls overlap, then once all have finished
\* the details panel, the raw JSON, the copy buffer and the state
\* showing belong to the file started last, the file in the preview;
\* an earlier call that finishes later does not overwrite them.
C16_LastFileWins ==
    (Started # {} /\ InFlight = {})
    => /\ previewImage = LastFile.name
       /\ Visible = {EndAlone(LastFile)}
       /\ Visible = {"results"}
          => /\ credentialDetails =
                    detailsPanelAfter(<<>>, manifestStore(LastFile).value)
             /\ currentJsonData = stringifyStore(manifestStore(LastFile).value)
             /\ jsonOutput = syntaxHighlight(currentJsonData)

=====================
